---- MODULE Spec2Model ----
(***************************************************************************)
(* A model of the matrixone-operator helpers in                            *)
(*   api/core/v1alpha1/common_helpers.go   (overlay merge, bucket claims)  *)
(*   pkg/controllers/dnset (resource builders and syncPods)                *)
(*                                                                         *)
(* Optional (pointer / nil-able) values are sequences of length <= 1:      *)
(* None is nil, Some(x) is a non-nil value.  Go strings are sequences of   *)
(* one-character strings where their characters matter.                    *)
(***************************************************************************)
EXTENDS Integers, Sequences, FiniteSets, TLC

None == <<>>
Some(x) == <<x>>
IsNone(o) == Len(o) = 0
IsSome(o) == Len(o) = 1
Get(o) == o[1]

(***************************************************************************)
(* Bounds of the model                                                     *)
(***************************************************************************)
\* number of clusters that reconcile concurrently
NumClusters == 2
\* reconciliation passes per cluster
MaxPasses == 2
\* longest endpoint / path string of a provider
MaxStrLen == 1
\* fields set in an overlay handed to the overlay merger
MaxOverlayFields == 1
\* fields by which a merge target differs from the bare generated object
MaxTargetFields == 1
\* longest volume list of a pod spec or of an overlay
MaxVolumes == 2
\* DNSet spec updates in one run
MaxSpecUpdates == 1
\* sync calls (syncPods, syncPersistentVolumeClaim, syncReplicas) in one run
MaxSyncs == 3
\* longest FailedStores list
MaxStores == 2
\* latest clock reading and transition time
MaxTime == 4
\* longest duration passed to StoresFailedFor
MaxDuration == 2
\* SetCondition calls in one run
MaxSetCalls == 3
\* CNSet Create calls in one run
MaxCreates == 2
\* longest label list of a CNSet
MaxLabels == 1

VARIABLES
  \* ---- bucket claim resolver (ClaimedBucket and its caller) ----
  claims,     \* the BucketClaim objects in the resource store
  provider,   \* provider[c]: the S3Provider cluster c references
  pc,         \* pc[c]: position of cluster c's reconcile pass
  passes,     \* passes[c]: passes cluster c has started
  bcItems,    \* bcItems[c]: bcList.Items of c's last List call
  listErr,    \* listErr[c]: error of c's last List call ("" is nil)
  ret,        \* ret[c]: what ClaimedBucket returned to c
  \* ---- bucket identity (UniqueBucketLabel) ----
  provA, provB,   \* two providers
  idA, idB,       \* their identities, None until computed
  \* ---- overlay merger ----
  ovOverlay,  \* the *Overlay receiver: None (nil) or Some(overlay)
  ovKind,     \* which merge function the target is for
  ovTarget,   \* the target as it was before the call
  ovResult,   \* None before the call, Some(target after the call)
  ovPanic,    \* whether the call panicked
  \* ---- DataNode reconciler ----
  dnSpec,     \* the DNSet (ctx.Obj): name and spec
  dnDep,      \* ctx.Dep: None (nil) or Some of the dependency snapshot
  dnFS,       \* what common.FileServiceConfig generates for this DNSet
  sts,        \* the StatefulSet the sync functions work on
  cmStore,    \* the configuration documents in the resource store
  dnRet,      \* outcome of the last sync call
  dnLast,     \* the last sync call: its name and the state it started from
  dnRan,      \* sync calls completed since the spec or snapshot last changed
  dnSyncs,    \* sync calls so far
  dnUpdates   \* spec updates so far

bucketVars == <<claims, provider, pc, passes, bcItems, listErr, ret>>
labelVars == <<provA, provB, idA, idB>>
overlayVars == <<ovOverlay, ovKind, ovTarget, ovResult, ovPanic>>
dnVars == <<dnSpec, dnDep, dnFS, sts, cmStore, dnRet, dnLast, dnRan, dnSyncs, dnUpdates>>

(***************************************************************************)
(* S3Provider and UniqueBucketLabel                                        *)
(***************************************************************************)
Chars == {"a", "-"}

RECURSIVE StrUpTo(_)
StrUpTo(n) ==
  IF n = 0 THEN {<<>>}
  ELSE LET S == StrUpTo(n - 1)
       IN S \cup {Append(s, ch) : s \in {t \in S : Len(t) = n - 1}, ch \in Chars}

\* S3ProviderType: unset, "aws" or "minio"
S3ProviderTypes ==
  {None, Some(<<"a", "w", "s">>), Some(<<"m", "i", "n", "i", "o">>)}

\* the secret reference of a provider: unset or a named secret
SecretRefs == {None, Some("aws-secret")}

Providers ==
  [Type : S3ProviderTypes, Endpoint : StrUpTo(MaxStrLen),
   Path : StrUpTo(MaxStrLen), SecretRef : SecretRefs]

\* fmt.Sprintf("%s-%s-%s", a, b, c)
Sprintf3(a, b, c) == a \o <<"-">> \o b \o <<"-">> \o c

\* fmt.Sprintf("%x", sha1.Sum(b)): a one-way digest, taken as injective
Sha1Hex(s) == <<"sha1", s>>

UniqueBucketLabelWithSecret(s3Provider) ==
  LET providerType == IF IsSome(s3Provider.Type) THEN Get(s3Provider.Type) ELSE <<>>
      secret == IF IsSome(s3Provider.SecretRef) THEN <<"s">> ELSE <<>>
  IN Sha1Hex(Sprintf3(providerType, s3Provider.Endpoint, s3Provider.Path \o secret))

UniqueBucketLabel(s3Provider) ==
  LET providerType == IF IsSome(s3Provider.Type) THEN Get(s3Provider.Type) ELSE <<>>
      uniqId == Sprintf3(providerType, s3Provider.Endpoint, s3Provider.Path)
  IN Sha1Hex(uniqId)

(***************************************************************************)
(* ClaimedBucket                                                           *)
(***************************************************************************)
Clusters == 1 .. NumClusters

NoErr == ""
ListFailed == "list failed"
MoreThanOne == "list more than one buckets"

\* c.List(ctx, bcList, client.MatchingLabels{BucketUniqLabel: uniqLabel})
MatchingLabels(store, uniqLabel) == {b \in store : b.label = uniqLabel}

\* the switch on len(bcList.Items), after the error check of the List call
ClaimedBucketPickAny(err, items) ==
  IF err # NoErr THEN [claim |-> None, err |-> err]
  ELSE IF Cardinality(items) = 0 THEN [claim |-> None, err |-> NoErr]
  ELSE [claim |-> Some(CHOOSE b \in items : TRUE), err |-> NoErr]

ClaimedBucketNeverReuse(err, items) ==
  IF err # NoErr THEN [claim |-> None, err |-> err]
  ELSE IF Cardinality(items) <= 1 THEN [claim |-> None, err |-> NoErr]
  ELSE [claim |-> None, err |-> MoreThanOne]

ClaimedBucket(err, items) ==
  IF err # NoErr THEN [claim |-> None, err |-> err]
  ELSE IF Cardinality(items) = 0 THEN [claim |-> None, err |-> NoErr]
  ELSE IF Cardinality(items) = 1
       THEN [claim |-> Some(CHOOSE b \in items : TRUE), err |-> NoErr]
  ELSE [claim |-> None, err |-> MoreThanOne]

NoRet == [claim |-> None, err |-> NoErr]

\* the providers the reconciling clusters reference: two name the same
\* bucket with different credentials, one names another bucket
BucketProviders ==
  <<[Type |-> Some(<<"a", "w", "s">>), Endpoint |-> <<>>, Path |-> <<"a">>, SecretRef |-> None],
    [Type |-> Some(<<"a", "w", "s">>), Endpoint |-> <<>>, Path |-> <<"a">>, SecretRef |-> Some("aws-secret")],
    [Type |-> Some(<<"a", "w", "s">>), Endpoint |-> <<>>, Path |-> <<"-">>, SecretRef |-> None]>>

\* clusters are interchangeable: the assignments of providers to clusters,
\* up to renaming the clusters
ProviderAssignments ==
  {[c \in Clusters |-> BucketProviders[f[c]]] :
     f \in {g \in [Clusters -> DOMAIN BucketProviders] :
              \A c \in Clusters : \A d \in Clusters : c <= d => g[c] <= g[d]}}

BucketInit ==
  /\ claims = {}
  /\ provider \in ProviderAssignments
  /\ pc = [c \in Clusters |-> "idle"]
  /\ passes = [c \in Clusters |-> 0]
  /\ bcItems = [c \in Clusters |-> {}]
  /\ listErr = [c \in Clusters |-> NoErr]
  /\ ret = [c \in Clusters |-> NoRet]

BucketIdle ==
  /\ claims = {}
  /\ provider = <<>>
  /\ pc = <<>>
  /\ passes = <<>>
  /\ bcItems = <<>>
  /\ listErr = <<>>
  /\ ret = <<>>

\* a reconcile pass of cluster c calls ClaimedBucket; the List call fails or
\* returns the claims carrying the provider's identity label
CallClaimedBucket(c) ==
  /\ pc[c] = "idle"
  /\ passes[c] < MaxPasses
  /\ \E err \in {NoErr, ListFailed} :
       LET items == IF err = NoErr
                    THEN MatchingLabels(claims, UniqueBucketLabel(provider[c]))
                    ELSE {}
       IN /\ listErr' = [listErr EXCEPT ![c] = err]
          /\ bcItems' = [bcItems EXCEPT ![c] = items]
          /\ ret' = [ret EXCEPT ![c] = ClaimedBucket(err, items)]
  /\ passes' = [passes EXCEPT ![c] = @ + 1]
  /\ pc' = [pc EXCEPT ![c] = "listed"]
  /\ UNCHANGED <<claims, provider>>

\* the caller on (nil, nil): create a claim labelled with the identity
CreateClaim(c) ==
  /\ pc[c] = "listed"
  /\ ret[c] = NoRet
  /\ claims' = claims \cup
       {[owner |-> c, pass |-> passes[c], label |-> UniqueBucketLabel(provider[c])]}
  /\ pc' = [pc EXCEPT ![c] = "done"]
  /\ UNCHANGED <<provider, passes, bcItems, listErr, ret>>

\* the caller on a returned claim (reuse it) or on an error (surface it)
FinishPass(c) ==
  /\ pc[c] = "listed"
  /\ ret[c] # NoRet
  /\ pc' = [pc EXCEPT ![c] = "done"]
  /\ UNCHANGED <<claims, provider, passes, bcItems, listErr, ret>>

\* the next observed change starts another pass, its locals fresh
NextPass(c) ==
  /\ pc[c] = "done"
  /\ passes[c] < MaxPasses
  /\ pc' = [pc EXCEPT ![c] = "idle"]
  /\ bcItems' = [bcItems EXCEPT ![c] = {}]
  /\ listErr' = [listErr EXCEPT ![c] = NoErr]
  /\ ret' = [ret EXCEPT ![c] = NoRet]
  /\ UNCHANGED <<claims, provider, passes>>

(***************************************************************************)
(* Bucket identity of two providers                                        *)
(***************************************************************************)
LabelInit ==
  /\ provA \in Providers
  /\ provB \in Providers
  /\ idA = None
  /\ idB = None

LabelIdle ==
  /\ provA = None
  /\ provB = None
  /\ idA = None
  /\ idB = None

LabelA ==
  /\ provA # None
  /\ idA = None
  /\ idA' = Some(UniqueBucketLabel(provA))
  /\ UNCHANGED <<provA, provB, idB>>

LabelB ==
  /\ provB # None
  /\ idB = None
  /\ idB' = Some(UniqueBucketLabel(provB))
  /\ UNCHANGED <<provA, provB, idA>>

(***************************************************************************)
(* Overlay merger: OverlayPodMeta, AppendVolumeClaims, OverlayPodSpec,     *)
(* OverlayMainContainer                                                    *)
(*                                                                         *)
(* A Go map is a set of <<key, value>> pairs with distinct keys, wrapped   *)
(* in an optional (a nil map is None).  A slice that the code tests        *)
(* against nil is an optional sequence; a slice that is only ranged over   *)
(* or appended to is a plain sequence.                                     *)
(***************************************************************************)
Gen == "gen"    \* a value the controller generated
Ovl == "ovl"    \* a value the overlay supplies

ContainerMain == "main"

MapKeys(m) == {kv[1] : kv \in m}

\* for k, v := range src { dst[k] = v }: a write to a nil map panics, and
\* an empty src writes nothing
AssignAll(dst, src) ==
  IF src = {} THEN [m |-> dst, panic |-> FALSE]
  ELSE IF IsNone(dst) THEN [m |-> dst, panic |-> TRUE]
  ELSE [m |-> Some({kv \in Get(dst) : kv[1] \notin MapKeys(src)} \cup src),
        panic |-> FALSE]

OverlayPodMetaLabelsOnly(o, meta) ==
  IF IsNone(o) THEN [meta |-> meta, panic |-> FALSE]
  ELSE LET l == IF IsSome(Get(o).PodLabels)
                THEN AssignAll(meta.Labels, Get(Get(o).PodLabels))
                ELSE [m |-> meta.Labels, panic |-> FALSE]
       IN [meta |-> [meta EXCEPT !.Labels = l.m], panic |-> l.panic]

\* (o *Overlay) OverlayPodMeta(meta): the metadata after the call, and
\* whether the call panicked on the way
OverlayPodMeta(o, meta) ==
  IF IsNone(o) THEN [meta |-> meta, panic |-> FALSE]
  ELSE LET l == IF IsSome(Get(o).PodLabels)
                THEN AssignAll(meta.Labels, Get(Get(o).PodLabels))
                ELSE [m |-> meta.Labels, panic |-> FALSE]
           a == IF l.panic THEN [m |-> meta.Annotations, panic |-> TRUE]
                ELSE IF IsSome(Get(o).PodAnnotations)
                THEN AssignAll(meta.Annotations, Get(Get(o).PodAnnotations))
                ELSE [m |-> meta.Annotations, panic |-> FALSE]
       IN [meta |-> [Labels |-> l.m, Annotations |-> a.m], panic |-> a.panic]

AppendVolumeClaimsTwice(o, volumeClaims) ==
  IF IsNone(o) THEN volumeClaims
  ELSE volumeClaims \o Get(o).VolumeClaims \o Get(o).VolumeClaims

\* (o *Overlay) AppendVolumeClaims(claims)
AppendVolumeClaims(o, volumeClaims) ==
  IF IsNone(o) THEN volumeClaims
  ELSE volumeClaims \o Get(o).VolumeClaims

\* util.UpsertByKey: replace the first element with the key of elem in
\* place, or append elem
UpsertByKey(list, elem) ==
  IF \E i \in 1 .. Len(list) : list[i].Name = elem.Name
  THEN LET i == CHOOSE j \in 1 .. Len(list) :
                  /\ list[j].Name = elem.Name
                  /\ \A k \in 1 .. (j - 1) : list[k].Name # elem.Name
       IN [list EXCEPT ![i] = elem]
  ELSE Append(list, elem)

\* util.UpsertListByKey(list, elems, func(v) string { return v.Name })
RECURSIVE UpsertListByKey(_, _)
UpsertListByKey(list, elems) ==
  IF elems = <<>> THEN list
  ELSE UpsertListByKey(UpsertByKey(list, Head(elems)), Tail(elems))

\* findMainContainer: the first container named ContainerMain, or nil
findMainContainer(containers) ==
  IF \E i \in 1 .. Len(containers) : containers[i].Name = ContainerMain
  THEN LET i == CHOOSE j \in 1 .. Len(containers) :
                  /\ containers[j].Name = ContainerMain
                  /\ \A k \in 1 .. (j - 1) : containers[k].Name # ContainerMain
       IN Some(containers[i])
  ELSE None

\* "if o.X != nil { pod.X = o.X }" for pointers and nil-able slices
OrKeep(ov, cur) == IF IsSome(ov) THEN ov ELSE cur
\* "if o.X != "" { pod.X = o.X }" for strings
OrKeepStr(ov, cur) == IF ov # "" THEN ov ELSE cur

SidecarsOverMain(ov, pod) ==
  IF IsSome(ov.SidecarContainers)
  THEN LET main == findMainContainer(pod.Containers)
       IN (IF IsSome(main) THEN <<Get(main)>> ELSE <<>>) \o Get(ov.SidecarContainers)
  ELSE pod.Containers

OverlayPodSpecFields(ov, pod) ==
  [Volumes |-> IF IsSome(ov.Volumes)
               THEN UpsertListByKey(pod.Volumes, Get(ov.Volumes))
               ELSE pod.Volumes,
   Affinity |-> OrKeep(ov.Affinity, pod.Affinity),
   ServiceAccountName |-> OrKeepStr(ov.ServiceAccountName, pod.ServiceAccountName),
   SecurityContext |-> OrKeep(ov.SecurityContext, pod.SecurityContext),
   ImagePullSecrets |-> OrKeep(ov.ImagePullSecrets, pod.ImagePullSecrets),
   Tolerations |-> OrKeep(ov.Tolerations, pod.Tolerations),
   PriorityClassName |-> OrKeepStr(ov.PriorityClassName, pod.PriorityClassName),
   TerminationGracePeriodSeconds |->
     OrKeep(ov.TerminationGracePeriodSeconds, pod.TerminationGracePeriodSeconds),
   HostAliases |-> OrKeep(ov.HostAliases, pod.HostAliases),
   TopologySpreadConstraints |->
     OrKeep(ov.TopologySpreadConstraints, pod.TopologySpreadConstraints),
   RuntimeClassName |-> OrKeep(ov.RuntimeClassName, pod.RuntimeClassName),
   DNSConfig |-> OrKeep(ov.DNSConfig, pod.DNSConfig),
   InitContainers |-> OrKeep(ov.InitContainers, pod.InitContainers),
   Containers |-> SidecarsOverMain(ov, pod),
   ReadinessGates |-> pod.ReadinessGates,
   NodeSelector |-> pod.NodeSelector]

OverlayPodSpecAppendVolumes(o, pod) ==
  IF IsNone(o) THEN pod
  ELSE LET r == OverlayPodSpecFields(Get(o), pod)
       IN IF IsSome(Get(o).Volumes)
          THEN [r EXCEPT !.Volumes = pod.Volumes \o Get(Get(o).Volumes)]
          ELSE r

OverlayPodSpecAlwaysTolerations(o, pod) ==
  IF IsNone(o) THEN pod
  ELSE [OverlayPodSpecFields(Get(o), pod) EXCEPT !.Tolerations = Get(o).Tolerations]

\* (o *Overlay) OverlayPodSpec(pod)
OverlayPodSpec(o, pod) ==
  IF IsNone(o) THEN pod ELSE OverlayPodSpecFields(Get(o), pod)

\* (o *Overlay) OverlayMainContainer(c); mc is the embedded
\* MainContainerOverlay, whose fields o.ImagePullPolicy and o.VolumeMounts
\* name as well
OverlayMainContainer(o, c) ==
  IF IsNone(o) THEN c
  ELSE LET mc == Get(o)
       IN [Name |-> c.Name,
           Image |-> c.Image,
           Resources |-> c.Resources,
           ImagePullPolicy |-> IF IsSome(mc.ImagePullPolicy)
                               THEN Get(mc.ImagePullPolicy)
                               ELSE c.ImagePullPolicy,
           Command |-> OrKeep(mc.Command, c.Command),
           Args |-> OrKeep(mc.Args, c.Args),
           EnvFrom |-> OrKeep(mc.EnvFrom, c.EnvFrom),
           Env |-> IF IsSome(mc.Env) THEN UpsertListByKey(c.Env, Get(mc.Env)) ELSE c.Env,
           ReadinessProbe |-> OrKeep(mc.ReadinessProbe, c.ReadinessProbe),
           LivenessProbe |-> OrKeep(mc.LivenessProbe, c.LivenessProbe),
           Lifecycle |-> OrKeep(mc.Lifecycle, c.Lifecycle),
           VolumeMounts |-> IF IsSome(mc.VolumeMounts)
                            THEN UpsertListByKey(c.VolumeMounts, Get(mc.VolumeMounts))
                            ELSE c.VolumeMounts]

(***************************************************************************)
(* Overlays and merge targets                                              *)
(***************************************************************************)
Volume(name, source) == [Name |-> name, Source |-> [Kind |-> source, Ref |-> <<>>]]
EnvVar(name, value) == [Name |-> name, Value |-> value]
VolumeMount(name, path, ro) == [Name |-> name, MountPath |-> path, ReadOnly |-> ro]
PersistentVolumeClaim(name, size, class) ==
  [Name |-> name, Size |-> size, StorageClassName |-> class]

\* corev1.Container{Name: name}
NewContainer(name) ==
  [Name |-> name, Image |-> "", Resources |-> "", ImagePullPolicy |-> "",
   Command |-> None, Args |-> None, EnvFrom |-> None, Env |-> <<>>,
   ReadinessProbe |-> None, LivenessProbe |-> None, Lifecycle |-> None,
   VolumeMounts |-> <<>>]

\* a container an overlay supplies (sidecar or init container)
OverlayContainer(name) == [NewContainer(name) EXCEPT !.Image = Ovl]

\* &Overlay{}: no field set
EmptyOverlay ==
  [PodLabels |-> None, PodAnnotations |-> None, Volumes |-> None,
   VolumeClaims |-> <<>>, Affinity |-> None, ServiceAccountName |-> "",
   SecurityContext |-> None, ImagePullSecrets |-> None, Tolerations |-> None,
   PriorityClassName |-> "", TerminationGracePeriodSeconds |-> None,
   HostAliases |-> None, TopologySpreadConstraints |-> None,
   RuntimeClassName |-> None, DNSConfig |-> None, InitContainers |-> None,
   SidecarContainers |-> None,
   ImagePullPolicy |-> None, Command |-> None, Args |-> None, EnvFrom |-> None,
   Env |-> None, ReadinessProbe |-> None, LivenessProbe |-> None,
   Lifecycle |-> None, VolumeMounts |-> None]

OverlayFields == DOMAIN EmptyOverlay

VolumeNames == {"config", "data", "scratch"}

\* the sequences of at most n elements of S with pairwise distinct names
RECURSIVE NamedSeqs(_, _)
NamedSeqs(S, n) ==
  IF n = 0 THEN {<<>>}
  ELSE LET R == NamedSeqs(S, n - 1)
       IN R \cup UNION {{Append(q, e) :
                           e \in {x \in S : \A i \in 1 .. Len(q) : q[i].Name # x.Name}} :
                        q \in {r \in R : Len(r) = n - 1}}

\* the values an overlay field takes when it is set
OverlayAlt(f) ==
  CASE f = "PodLabels" -> {Some({}), Some({<<"app", Ovl>>}), Some({<<"tier", Ovl>>})}
    [] f = "PodAnnotations" -> {Some({}), Some({<<"note", Ovl>>})}
    [] f = "Volumes" ->
         {Some(q) : q \in NamedSeqs({Volume(n, Ovl) : n \in VolumeNames}, MaxVolumes)}
    [] f = "VolumeClaims" -> {<<PersistentVolumeClaim("extra", Ovl, Ovl)>>}
    [] f \in {"ServiceAccountName", "PriorityClassName"} -> {Ovl}
    [] f \in {"Affinity", "SecurityContext", "TerminationGracePeriodSeconds",
              "RuntimeClassName", "DNSConfig", "ReadinessProbe", "LivenessProbe",
              "Lifecycle"} -> {Some(Ovl)}
    [] f = "ImagePullPolicy" -> {Some("Always")}
    [] f \in {"ImagePullSecrets", "Tolerations", "HostAliases",
              "TopologySpreadConstraints", "Command", "Args", "EnvFrom"} ->
         {Some(<<>>), Some(<<Ovl>>)}
    [] f = "InitContainers" -> {Some(<<>>), Some(<<OverlayContainer("init")>>)}
    [] f = "SidecarContainers" ->
         {Some(<<>>), Some(<<OverlayContainer("sidecar")>>),
          Some(<<OverlayContainer("sidecar"), OverlayContainer(ContainerMain)>>)}
    [] f = "Env" ->
         {Some(<<>>), Some(<<EnvVar("POD_NAME", Ovl)>>),
          Some(<<EnvVar("EXTRA", Ovl), EnvVar("NAMESPACE", Ovl)>>)}
    [] f = "VolumeMounts" ->
         {Some(<<>>), Some(<<VolumeMount("config", Ovl, FALSE)>>),
          Some(<<VolumeMount("scratch", Ovl, FALSE)>>)}

\* every record of S, and every record of S with one more field changed
Vary(S, Fields, Alt(_)) ==
  S \cup UNION {{[r EXCEPT ![f] = v] : v \in Alt(f)} : <<r, f>> \in S \X Fields}

RECURSIVE OverlaysUpTo(_)
OverlaysUpTo(k) ==
  IF k = 0 THEN {EmptyOverlay}
  ELSE Vary(OverlaysUpTo(k - 1), OverlayFields, OverlayAlt)

Overlays == OverlaysUpTo(MaxOverlayFields)

\* pod template metadata
MetaTargets ==
  [Labels : {None, Some({}), Some({<<"app", Gen>>}),
             Some({<<"app", Gen>>, <<"tier", Gen>>})},
   Annotations : {None, Some({}), Some({<<"note", Gen>>})}]

\* the main container as syncPodSpec hands it to OverlayMainContainer,
\* before any optional field is filled
BareMainContainer ==
  [NewContainer(ContainerMain) EXCEPT
     !.Image = Gen, !.Resources = Gen,
     !.Command = Some(<<"/bin/sh", "/etc/matrixone/config/start.sh">>),
     !.Env = <<EnvVar("POD_NAME", Gen), EnvVar("NAMESPACE", Gen),
               EnvVar("HEADLESS_SERVICE_NAME", Gen)>>,
     !.VolumeMounts = <<VolumeMount("config", "/etc/matrixone/config", TRUE)>>]

ContainerAlt(f) ==
  CASE f \in {"Name", "Image", "Resources"} -> {Gen}
    [] f = "ImagePullPolicy" -> {"IfNotPresent"}
    [] f \in {"Command", "Args", "EnvFrom"} -> {None, Some(<<Gen>>)}
    [] f = "Env" -> {<<>>, <<EnvVar("EXTRA", Gen), EnvVar("POD_NAME", Gen)>>}
    [] f \in {"ReadinessProbe", "LivenessProbe", "Lifecycle"} -> {Some(Gen)}
    [] f = "VolumeMounts" ->
         {<<>>, <<VolumeMount("config", "/etc/matrixone/config", TRUE),
                  VolumeMount("data", "/var/lib/matrixone", FALSE)>>}

RECURSIVE ContainersUpTo(_)
ContainersUpTo(k) ==
  IF k = 0 THEN {BareMainContainer}
  ELSE Vary(ContainersUpTo(k - 1), DOMAIN BareMainContainer, ContainerAlt)

ContainerTargets == ContainersUpTo(MaxTargetFields)

\* corev1.PodSpec{}
BarePodSpec ==
  [Volumes |-> <<>>, Affinity |-> None, ServiceAccountName |-> "",
   SecurityContext |-> None, ImagePullSecrets |-> None, Tolerations |-> None,
   PriorityClassName |-> "", TerminationGracePeriodSeconds |-> None,
   HostAliases |-> None, TopologySpreadConstraints |-> None,
   RuntimeClassName |-> None, DNSConfig |-> None, InitContainers |-> None,
   Containers |-> <<BareMainContainer>>, ReadinessGates |-> <<>>,
   NodeSelector |-> None]

PodSpecAlt(f) ==
  CASE f = "Volumes" ->
         NamedSeqs({Volume(n, Gen) : n \in VolumeNames}, MaxVolumes)
    [] f \in {"ServiceAccountName", "PriorityClassName"} -> {Gen}
    [] f \in {"Affinity", "SecurityContext", "TerminationGracePeriodSeconds",
              "RuntimeClassName", "DNSConfig"} -> {Some(Gen)}
    [] f \in {"ImagePullSecrets", "Tolerations", "HostAliases",
              "TopologySpreadConstraints"} -> {Some(<<>>), Some(<<Gen>>)}
    [] f = "InitContainers" -> {Some(<<NewContainer("init")>>)}
    [] f = "Containers" ->
         {<<>>, <<NewContainer("sidecar")>>,
          <<BareMainContainer, NewContainer("sidecar")>>,
          <<NewContainer("sidecar"), BareMainContainer>>}
    [] f = "ReadinessGates" -> {<<"InPlaceUpdateReady">>}
    [] f = "NodeSelector" -> {Some({<<"arch", Gen>>})}

RECURSIVE PodSpecsUpTo(_)
PodSpecsUpTo(k) ==
  IF k = 0 THEN {BarePodSpec}
  ELSE Vary(PodSpecsUpTo(k - 1), DOMAIN BarePodSpec, PodSpecAlt)

PodSpecTargets == PodSpecsUpTo(MaxTargetFields)

ClaimTargets == {<<>>, <<PersistentVolumeClaim("data", Gen, Gen)>>}

OverlayInit ==
  /\ ovOverlay \in {None} \cup {Some(o) : o \in Overlays}
  /\ \/ ovKind = "meta" /\ ovTarget \in MetaTargets
     \/ ovKind = "spec" /\ ovTarget \in PodSpecTargets
     \/ ovKind = "main" /\ ovTarget \in ContainerTargets
     \/ ovKind = "claims" /\ ovTarget \in ClaimTargets
  /\ ovResult = None
  /\ ovPanic = FALSE

OverlayIdle ==
  /\ ovOverlay = None
  /\ ovKind = "idle"
  /\ ovTarget = None
  /\ ovResult = None
  /\ ovPanic = FALSE

ApplyOverlayPodMeta ==
  /\ ovKind = "meta"
  /\ IsNone(ovResult)
  /\ LET r == OverlayPodMeta(ovOverlay, ovTarget)
     IN /\ ovResult' = Some(r.meta)
        /\ ovPanic' = r.panic
  /\ UNCHANGED <<ovOverlay, ovKind, ovTarget>>

ApplyOverlayPodSpec ==
  /\ ovKind = "spec"
  /\ IsNone(ovResult)
  /\ ovResult' = Some(OverlayPodSpec(ovOverlay, ovTarget))
  /\ UNCHANGED <<ovOverlay, ovKind, ovTarget, ovPanic>>

ApplyOverlayMainContainer ==
  /\ ovKind = "main"
  /\ IsNone(ovResult)
  /\ ovResult' = Some(OverlayMainContainer(ovOverlay, ovTarget))
  /\ UNCHANGED <<ovOverlay, ovKind, ovTarget, ovPanic>>

ApplyAppendVolumeClaims ==
  /\ ovKind = "claims"
  /\ IsNone(ovResult)
  /\ ovResult' = Some(AppendVolumeClaims(ovOverlay, ovTarget))
  /\ UNCHANGED <<ovOverlay, ovKind, ovTarget, ovPanic>>

(***************************************************************************)
(* ConfigTree (v1alpha1.TomlConfig): a set of <<path, value>> leaves, no   *)
(* path a prefix of another                                                *)
(***************************************************************************)
IsPrefix(p, q) == Len(p) <= Len(q) /\ SubSeq(q, 1, Len(p)) = p
Comparable(p, q) == IsPrefix(p, q) \/ IsPrefix(q, p)

\* conf.Set(path, value): replace what is at path, creating the nodes above
ConfSet(conf, path, value) ==
  {e \in conf : ~Comparable(e[1], path)} \cup {<<path, value>>}

\* conf.Merge(other): recursive union, the receiver's value kept on conflict
ConfMerge(conf, other) ==
  conf \cup {e \in other : \A t \in conf : ~Comparable(t[1], e[1])}

\* conf.ToString(): the document as TOML text
ConfToString(conf) == [format |-> "toml", doc |-> conf]

ConfLookup(conf, path) ==
  IF \E e \in conf : e[1] = path
  THEN Some((CHOOSE e \in conf : e[1] = path)[2])
  ELSE None

(***************************************************************************)
(* DataNode set: resource builders                                         *)
(***************************************************************************)
serviceType == <<"DN">>
PathServiceType == <<"service-type">>
PathListenAddress == <<"dn", "listen-address">>
PathLockListenAddress == <<"dn", "lockservice", "listen-address">>
PathHAKeeper == <<"hakeeper-client", "service-addresses">>
ComputedPaths ==
  {PathServiceType, PathListenAddress, PathLockListenAddress, PathHAKeeper}

\* logset.HaKeeperAdds(ls)
HaKeeperAdds(ls) == <<"hakeeper", ls.Name>>
\* getListenAddress()
getListenAddress == <<"0.0.0.0", "dnServicePort">>
\* fmt.Sprintf("0.0.0.0:%d", common.LockServicePort)
LockListenAddress == <<"0.0.0.0", "LockServicePort">>

DiscoveryNotReady == "HAKeeper discovery address not ready"

\* names of package common
ConfigVolume == "config"
ConfigPath == "/etc/matrixone/config"
DataVolume == "data"
DataPath == "/var/lib/matrixone"
ConfigFile == "config.toml"
Entrypoint == "start.sh"
InPlaceUpdateReady == "InPlaceUpdateReady"

ComputedValue(path, ls) ==
  CASE path = PathServiceType -> serviceType
    [] path = PathListenAddress -> getListenAddress
    [] path = PathLockListenAddress -> LockListenAddress
    [] path = PathHAKeeper -> HaKeeperAdds(ls)

DNConfigMergeComputed(conf, ls, fs) ==
  LET c1 == ConfMerge(conf, {<<PathHAKeeper, HaKeeperAdds(ls)>>})
      c2 == ConfMerge(c1, fs)
      c3 == ConfMerge(c2, {<<PathServiceType, serviceType>>})
      c4 == ConfMerge(c3, {<<PathListenAddress, getListenAddress>>})
  IN ConfMerge(c4, {<<PathLockListenAddress, LockListenAddress>>})

\* the Set and Merge calls of buildDNSetConfigMap, in the order of the code
DNConfig(conf, ls, fs) ==
  LET c1 == ConfSet(conf, PathHAKeeper, HaKeeperAdds(ls))
      c2 == ConfMerge(c1, fs)
      c3 == ConfSet(c2, PathServiceType, serviceType)
      c4 == ConfSet(c3, PathListenAddress, getListenAddress)
  IN ConfSet(c4, PathLockListenAddress, LockListenAddress)

configMapName(dn) == <<dn.Name, "config">>

\* buildDNSetConfigMap(dn, ls): the ConfigMap or the error, and dn.Spec.Config
\* after the call (conf aliases dn.Spec.Config when that is not nil, and Set
\* and Merge work on the receiver).  fs is common.FileServiceConfig(...).
buildDNSetConfigMap(dn, ls, fs) ==
  IF IsNone(ls.Discovery)
  THEN [cm |-> None, err |-> DiscoveryNotReady, Config |-> dn.Config]
  ELSE LET conf == IF IsSome(dn.Config) THEN Get(dn.Config) ELSE {}
           out == DNConfig(conf, ls, fs)
       IN [cm |-> Some([Name |-> configMapName(dn),
                        ConfigFile |-> ConfToString(out),
                        Entrypoint |-> "dn-start-script"]),
           err |-> NoErr,
           Config |-> IF IsSome(dn.Config) THEN Some(out) ELSE None]

\* syncReplicas
syncReplicas(dn, w) == [w EXCEPT !.Replicas = dn.Replicas]

\* syncPodMeta: the workload after the call and whether the call panicked
syncPodMeta(dn, w) ==
  LET r == OverlayPodMeta(dn.Overlay, w.Meta)
  IN [w |-> [w EXCEPT !.Meta = r.meta], panic |-> r.panic]

\* common.SetStorageProviderConfig: the credentials of an S3 provider with a
\* secret reference go into the environment of every container
RECURSIVE SetStorageProviderEnv(_, _)
SetStorageProviderEnv(sp, containers) ==
  IF containers = <<>> THEN <<>>
  ELSE LET c == Head(containers)
           env == IF IsSome(sp.S3) /\ IsSome(Get(sp.S3).SecretRef)
                  THEN UpsertListByKey(c.Env,
                         <<EnvVar("AWS_ACCESS_KEY_ID", Get(Get(sp.S3).SecretRef)),
                           EnvVar("AWS_SECRET_ACCESS_KEY", Get(Get(sp.S3).SecretRef))>>)
                  ELSE c.Env
       IN <<[c EXCEPT !.Env = env]>> \o SetStorageProviderEnv(sp, Tail(containers))

SetStorageProviderConfig(sp, pod) ==
  [pod EXCEPT !.Containers = SetStorageProviderEnv(sp, pod.Containers)]

\* common.SyncTopology: one generated constraint per topology key
SyncTopology(domains, pod) ==
  [pod EXCEPT !.TopologySpreadConstraints =
     IF domains = <<>> THEN None ELSE Some(domains)]

MainEnv(dn) ==
  <<EnvVar("POD_NAME", "metadata.name"),
    EnvVar("NAMESPACE", "metadata.namespace"),
    EnvVar("HEADLESS_SERVICE_NAME", "dn-headless")>>
  \o (IF dn.DNSBasedIdentity THEN <<EnvVar("HOSTNAME_UUID", "y")>> ELSE <<>>)

MainVolumeMounts(dn) ==
  <<VolumeMount(ConfigVolume, ConfigPath, TRUE)>>
  \o (IF IsSome(dn.CacheVolume) THEN <<VolumeMount(DataVolume, DataPath, FALSE)>> ELSE <<>>)

syncPodSpecAppendEnv(dn, w, sp) ==
  LET found == findMainContainer(w.Spec.Containers)
      mainRef == IF IsSome(found) THEN Get(found) ELSE NewContainer(ContainerMain)
      main1 == [mainRef EXCEPT
                  !.Image = dn.Image,
                  !.Resources = dn.Resources,
                  !.Command = Some(<<"/bin/sh", ConfigPath, Entrypoint>>),
                  !.VolumeMounts = MainVolumeMounts(dn),
                  !.Env = mainRef.Env \o MainEnv(dn)]
      main2 == OverlayMainContainer(dn.Overlay, main1)
      spec1 == [w.Spec EXCEPT
                  !.Containers = <<main2>>,
                  !.ReadinessGates = <<InPlaceUpdateReady>>,
                  !.NodeSelector = dn.NodeSelector]
      spec2 == SetStorageProviderConfig(sp, spec1)
      spec3 == SyncTopology(dn.TopologyEvenSpread, spec2)
  IN [w EXCEPT !.Spec = OverlayPodSpec(dn.Overlay, spec3)]

\* syncPodSpec
syncPodSpec(dn, w, sp) ==
  LET found == findMainContainer(w.Spec.Containers)
      mainRef == IF IsSome(found) THEN Get(found) ELSE NewContainer(ContainerMain)
      main1 == [mainRef EXCEPT
                  !.Image = dn.Image,
                  !.Resources = dn.Resources,
                  !.Command = Some(<<"/bin/sh", ConfigPath, Entrypoint>>),
                  !.VolumeMounts = MainVolumeMounts(dn),
                  !.Env = MainEnv(dn)]
      main2 == OverlayMainContainer(dn.Overlay, main1)
      spec1 == [w.Spec EXCEPT
                  !.Containers = <<main2>>,
                  !.ReadinessGates = <<InPlaceUpdateReady>>,
                  !.NodeSelector = dn.NodeSelector]
      spec2 == SetStorageProviderConfig(sp, spec1)
      spec3 == SyncTopology(dn.TopologyEvenSpread, spec2)
  IN [w EXCEPT !.Spec = OverlayPodSpec(dn.Overlay, spec3)]

\* syncPersistentVolumeClaim
syncPersistentVolumeClaim(dn, w) ==
  IF IsSome(dn.CacheVolume)
  THEN LET dataPVC == PersistentVolumeClaim(DataVolume, Get(dn.CacheVolume).Size,
                                            Get(dn.CacheVolume).StorageClassName)
       IN [w EXCEPT !.VolumeClaimTemplates = AppendVolumeClaims(dn.Overlay, <<dataPVC>>)]
  ELSE w

\* common.SyncConfigMap: store the document under a name made of its content
\* and make the pod's config volume refer to it
ConfigMapVolume(cm) ==
  [Name |-> ConfigVolume,
   Source |-> [Kind |-> "configmap", Ref |-> <<cm.Name, cm.ConfigFile>>]]

SyncConfigMap(store, pod, cm) ==
  [store |-> store \cup {cm},
   pod |-> [pod EXCEPT !.Volumes = UpsertByKey(@, ConfigMapVolume(cm))]]

RetOK == [kind |-> "ok", msg |-> ""]
RetErr(msg) == [kind |-> "error", msg |-> msg]
RetPanic == [kind |-> "panic", msg |-> "nil dereference"]
RetPanicMap == [kind |-> "panic", msg |-> "assignment to entry in nil map"]
RetNotReady == [kind |-> "notready", msg |-> ""]
RetNone == [kind |-> "none", msg |-> ""]

syncPodsMetaFirst(dn, dep, w, store, fs) ==
  IF IsNone(dep)
  THEN [w |-> w, store |-> store, Config |-> dn.Config, ret |-> RetPanic]
  ELSE
    LET ls == Get(dep).LogSet
        m == syncPodMeta(dn, w)
        b == buildDNSetConfigMap(dn, ls, fs)
    IN IF m.panic
       THEN [w |-> m.w, store |-> store, Config |-> dn.Config, ret |-> RetPanicMap]
       ELSE IF b.err # NoErr
       THEN [w |-> syncPodSpec(dn, m.w, ls.SharedStorage), store |-> store,
             Config |-> b.Config, ret |-> RetErr(b.err)]
       ELSE LET w2 == syncPodSpec(dn, m.w, ls.SharedStorage)
                r == SyncConfigMap(store, w2.Spec, Get(b.cm))
            IN [w |-> [w2 EXCEPT !.Spec = r.pod], store |-> r.store,
                Config |-> b.Config, ret |-> RetOK]

\* syncPods(ctx, sts): the workload, the resource store and dn.Spec.Config
\* after the call, and how the call ended
syncPods(dn, dep, w, store, fs) ==
  IF IsNone(dep)
  THEN \* ctx.Dep.Deps.LogSet is read before ctx.Dep is tested against nil
       [w |-> w, store |-> store, Config |-> dn.Config, ret |-> RetPanic]
  ELSE
    LET ls == Get(dep).LogSet
        b == buildDNSetConfigMap(dn, ls, fs)
    IN IF b.err # NoErr
       THEN [w |-> w, store |-> store, Config |-> b.Config, ret |-> RetErr(b.err)]
       ELSE LET m == syncPodMeta(dn, w)
            IN IF m.panic
               THEN [w |-> m.w, store |-> store, Config |-> b.Config,
                     ret |-> RetPanicMap]
               ELSE LET w2 == syncPodSpec(dn, m.w, ls.SharedStorage)
                        r == SyncConfigMap(store, w2.Spec, Get(b.cm))
                    IN [w |-> [w2 EXCEPT !.Spec = r.pod], store |-> r.store,
                        Config |-> b.Config, ret |-> RetOK]

(***************************************************************************)
(* DataNode set: specs, dependency snapshots, workloads                    *)
(***************************************************************************)
PlainDN ==
  [Name |-> "dn", Replicas |-> 1, Image |-> "matrixone:v1", Resources |-> "4cpu",
   CacheVolume |-> None, DNSBasedIdentity |-> FALSE, NodeSelector |-> None,
   TopologyEvenSpread |-> <<>>, Config |-> None, Overlay |-> None]

\* an overlay that sets every field but the pod annotations
RichOverlay ==
  [PodLabels |-> Some({<<"app", Ovl>>}), PodAnnotations |-> None,
   Volumes |-> Some(<<Volume(ConfigVolume, Ovl), Volume("scratch", Ovl)>>),
   VolumeClaims |-> <<PersistentVolumeClaim("extra", Ovl, Ovl)>>,
   Affinity |-> Some(Ovl), ServiceAccountName |-> Ovl,
   SecurityContext |-> Some(Ovl), ImagePullSecrets |-> Some(<<Ovl>>),
   Tolerations |-> Some(<<Ovl>>), PriorityClassName |-> Ovl,
   TerminationGracePeriodSeconds |-> Some(Ovl), HostAliases |-> Some(<<Ovl>>),
   TopologySpreadConstraints |-> Some(<<Ovl>>), RuntimeClassName |-> Some(Ovl),
   DNSConfig |-> Some(Ovl), InitContainers |-> Some(<<OverlayContainer("init")>>),
   SidecarContainers |-> Some(<<OverlayContainer("sidecar")>>),
   ImagePullPolicy |-> Some("Always"), Command |-> Some(<<Ovl>>),
   Args |-> Some(<<Ovl>>), EnvFrom |-> Some(<<Ovl>>),
   Env |-> Some(<<EnvVar("POD_NAME", Ovl), EnvVar("EXTRA", Ovl)>>),
   ReadinessProbe |-> Some(Ovl), LivenessProbe |-> Some(Ovl),
   Lifecycle |-> Some(Ovl),
   VolumeMounts |-> Some(<<VolumeMount(ConfigVolume, Ovl, FALSE),
                           VolumeMount("scratch", Ovl, FALSE)>>)]

AnnotationOverlay == [EmptyOverlay EXCEPT !.PodAnnotations = Some({<<"note", Ovl>>})]

SidecarOverlay ==
  [EmptyOverlay EXCEPT
     !.SidecarContainers =
        Some(<<OverlayContainer("sidecar"), OverlayContainer(ContainerMain)>>)]

DNOverlays ==
  {Some(EmptyOverlay), Some(RichOverlay), Some(AnnotationOverlay), Some(SidecarOverlay)}

UserValue == <<"user">>
UserPaths == ComputedPaths \cup {<<"log", "level">>}
\* configurations a user can supply in dn.Spec.Config
UserConfigs == {{<<p, UserValue>> : p \in P} : P \in SUBSET UserPaths}

FSValue == <<"fs">>
FSPaths == ComputedPaths \cup {<<"fileservice">>}
\* documents common.FileServiceConfig may generate
FSConfigs == {{<<p, FSValue>> : p \in P} : P \in SUBSET FSPaths}
PlainFS == {<<<<"fileservice">>, FSValue>>}

DNAlt(f) ==
  CASE f = "Name" -> {}
    [] f = "Replicas" -> {1, 2}
    [] f = "Image" -> {"matrixone:v1", "matrixone:v2"}
    [] f = "Resources" -> {"4cpu", "8cpu"}
    [] f = "CacheVolume" -> {None, Some([Size |-> "10Gi", StorageClassName |-> "gp3"])}
    [] f = "DNSBasedIdentity" -> {FALSE, TRUE}
    [] f = "NodeSelector" -> {None, Some({<<"arch", "amd64">>})}
    [] f = "TopologyEvenSpread" -> {<<>>, <<"hostname">>}
    [] f = "Config" -> {None, Some({<<<<"log", "level">>, UserValue>>,
                                    <<PathServiceType, UserValue>>})}
    [] f = "Overlay" -> {None} \cup DNOverlays

\* a spec with a cache volume, a user configuration and a full overlay
FullDN ==
  [PlainDN EXCEPT
     !.CacheVolume = Some([Size |-> "10Gi", StorageClassName |-> "gp3"]),
     !.DNSBasedIdentity = TRUE,
     !.TopologyEvenSpread = <<"hostname">>,
     !.Config = Some({<<<<"log", "level">>, UserValue>>,
                      <<PathServiceType, UserValue>>}),
     !.Overlay = Some(RichOverlay)]

\* the specs a run starts from; UpdateSpec reaches the specs around them
DNSpecs == {PlainDN, FullDN}

\* specs that differ in the user-supplied configuration only
ConfigSpecs == {[PlainDN EXCEPT !.Config = c] : c \in {None} \cup {Some(u) : u \in UserConfigs}}

FileSystemStorage == [S3 |-> None, FileSystem |-> Some("/test")]
S3Storage ==
  [S3 |-> Some([Type |-> Some(<<"a", "w", "s">>), Endpoint |-> <<>>,
                Path |-> <<"a">>, SecretRef |-> Some("aws-secret")]),
   FileSystem |-> None]

LogSets ==
  [Name : {"log"}, Discovery : {None, Some("log-discovery")},
   SharedStorage : {FileSystemStorage, S3Storage}]

\* ctx.Dep: nil, or the snapshot holding the LogSet
Deps == {None} \cup {Some([LogSet |-> ls]) : ls \in LogSets}

\* buildDNSet (common.StatefulSetTemplate), and the same object read back
\* from the store, where an empty annotation map comes back as nil
Templates ==
  {[Replicas |-> 0,
    Meta |-> [Labels |-> Some({<<"app", Gen>>}), Annotations |-> a],
    Spec |-> [BarePodSpec EXCEPT !.Containers = <<>>],
    VolumeClaimTemplates |-> <<>>] : a \in {None, Some({})}}

NoLast ==
  [op |-> "none", w |-> None, store |-> {}, Config |-> None, dep |-> None,
   rerun |-> FALSE]

DNInit(specs, fss) ==
  /\ dnSpec \in specs
  /\ dnDep \in Deps
  /\ dnFS \in fss
  /\ sts \in Templates
  /\ cmStore = {}
  /\ dnRet = RetNone
  /\ dnLast = NoLast
  /\ dnRan = {}
  /\ dnSyncs = 0
  /\ dnUpdates = 0

DNIdle ==
  /\ dnSpec = None
  /\ dnDep = None
  /\ dnFS = {}
  /\ sts = None
  /\ cmStore = {}
  /\ dnRet = RetNone
  /\ dnLast = NoLast
  /\ dnRan = {}
  /\ dnSyncs = 0
  /\ dnUpdates = 0

Started(op) ==
  [op |-> op, w |-> sts, store |-> cmStore, Config |-> dnSpec.Config,
   dep |-> dnDep, rerun |-> op \in dnRan]

\* one call of syncPods(ctx, sts)
SyncPods ==
  /\ dnSyncs < MaxSyncs
  /\ LET r == syncPods(dnSpec, dnDep, sts, cmStore, dnFS)
     IN /\ sts' = r.w
        /\ cmStore' = r.store
        /\ dnSpec' = [dnSpec EXCEPT !.Config = r.Config]
        /\ dnRet' = r.ret
        /\ dnRan' = IF r.ret = RetOK THEN dnRan \cup {"syncPods"} ELSE dnRan
  /\ dnLast' = Started("syncPods")
  /\ dnSyncs' = dnSyncs + 1
  /\ UNCHANGED <<dnDep, dnFS, dnUpdates>>

\* one call of syncPersistentVolumeClaim(dn, sts)
SyncPersistentVolumeClaim ==
  /\ dnSyncs < MaxSyncs
  /\ sts' = syncPersistentVolumeClaim(dnSpec, sts)
  /\ dnRet' = RetOK
  /\ dnRan' = dnRan \cup {"syncPersistentVolumeClaim"}
  /\ dnLast' = Started("syncPersistentVolumeClaim")
  /\ dnSyncs' = dnSyncs + 1
  /\ UNCHANGED <<dnSpec, dnDep, dnFS, cmStore, dnUpdates>>

\* one call of syncReplicas(dn, sts)
SyncReplicas ==
  /\ dnSyncs < MaxSyncs
  /\ sts' = syncReplicas(dnSpec, sts)
  /\ dnRet' = RetOK
  /\ dnRan' = dnRan \cup {"syncReplicas"}
  /\ dnLast' = Started("syncReplicas")
  /\ dnSyncs' = dnSyncs + 1
  /\ UNCHANGED <<dnSpec, dnDep, dnFS, cmStore, dnUpdates>>

\* the user updates one field of the DNSet spec
UpdateSpec ==
  /\ dnUpdates < MaxSpecUpdates
  /\ \E f \in DOMAIN PlainDN : \E v \in DNAlt(f) :
        /\ dnSpec[f] # v
        /\ dnSpec' = [dnSpec EXCEPT ![f] = v]
  /\ dnUpdates' = dnUpdates + 1
  /\ dnRan' = {}
  /\ UNCHANGED <<dnDep, dnFS, sts, cmStore, dnRet, dnLast, dnSyncs>>

\* the LogSet publishes its discovery address
PublishDiscovery ==
  /\ IsSome(dnDep)
  /\ IsNone(Get(dnDep).LogSet.Discovery)
  /\ dnDep' = Some([LogSet |-> [Get(dnDep).LogSet EXCEPT
                                  !.Discovery = Some("log-discovery")]])
  /\ dnRan' = {}
  /\ UNCHANGED <<dnSpec, dnFS, sts, cmStore, dnRet, dnLast, dnSyncs, dnUpdates>>

(***************************************************************************)
(* FailoverStatus.StoresFailedFor                                          *)
(***************************************************************************)
VARIABLES
  foStores,   \* s.FailedStores: stores with their LastTransitionTime
  foNow,      \* the clock time.Now() reads
  foD,        \* the duration d of the call
  foPc,       \* "idle", "loop" (inside the range loop) or "done"
  foIdx,      \* index of the element the loop tests next
  foOut,      \* the local slice stores
  foSeen      \* the clock reading of each test made so far

foVars == <<foStores, foNow, foD, foPc, foIdx, foOut, foSeen>>

StoreNames == <<"log-0", "log-1", "log-2", "log-3">>

\* FailedStores lists of n stores, each with a transition time
RECURSIVE StoreLists(_)
StoreLists(n) ==
  IF n = 0 THEN {<<>>}
  ELSE LET S == StoreLists(n - 1)
       IN S \cup {Append(l, [PodName |-> StoreNames[n], LastTransitionTime |-> t]) :
                    l \in {m \in S : Len(m) = n - 1}, t \in 0 .. MaxTime}

FailoverInit ==
  /\ foStores \in StoreLists(MaxStores)
  /\ foNow \in 0 .. MaxTime
  /\ foD \in 1 .. MaxDuration
  /\ foPc = "idle"
  /\ foIdx = 0
  /\ foOut = <<>>
  /\ foSeen = <<>>

FailoverIdle ==
  /\ foStores = <<>>
  /\ foNow = 0
  /\ foD = 0
  /\ foPc = "idle"
  /\ foIdx = 0
  /\ foOut = <<>>
  /\ foSeen = <<>>

FailedForStrict(now, store, d) == now - store.LastTransitionTime > d

\* time.Now().Sub(store.LastTransitionTime.Time) >= d
FailedFor(now, store, d) == now - store.LastTransitionTime >= d

\* var stores []Store, and the range loop is entered
CallStoresFailedFor ==
  /\ foPc = "idle"
  /\ foPc' = "loop"
  /\ foIdx' = 1
  /\ foOut' = <<>>
  /\ foSeen' = <<>>
  /\ UNCHANGED <<foStores, foNow, foD>>

\* one iteration of the range loop
TestStore ==
  /\ foPc = "loop"
  /\ foIdx <= Len(foStores)
  /\ foOut' = IF FailedFor(foNow, foStores[foIdx], foD)
              THEN Append(foOut, foStores[foIdx])
              ELSE foOut
  /\ foSeen' = Append(foSeen, foNow)
  /\ foIdx' = foIdx + 1
  /\ UNCHANGED <<foStores, foNow, foD, foPc>>

\* return stores
ReturnStores ==
  /\ foPc = "loop"
  /\ foIdx > Len(foStores)
  /\ foPc' = "done"
  /\ UNCHANGED <<foStores, foNow, foD, foIdx, foOut, foSeen>>

\* time passes
Tick ==
  /\ foNow < MaxTime
  /\ foNow' = foNow + 1
  /\ UNCHANGED <<foStores, foD, foPc, foIdx, foOut, foSeen>>

(***************************************************************************)
(* ConditionalStatus.SetCondition                                          *)
(***************************************************************************)
VARIABLES
  conds,      \* c.Conditions: None (nil) or Some(list of conditions)
  cdNow,      \* the clock time.Now() reads
  cdFirst,    \* the condition types in the order they were first set
  cdLast,     \* the last SetCondition call: its argument, c.Conditions before
  cdCalls     \* SetCondition calls so far

condVars == <<conds, cdNow, cdFirst, cdLast, cdCalls>>

reasonEmpty == "empty"

\* the zero metav1.Time, and a time a caller supplies
ZeroTime == 0
SuppliedTime == MaxTime + MaxTime

ConditionTypes == {"Ready", "Synced"}
ConditionStatuses == {"True", "False"}

\* the conditions callers hand to SetCondition
Conditions ==
  [Type : ConditionTypes, Status : ConditionStatuses, Reason : {"", "Reconciled"},
   Message : {"ok"}, LastTransitionTime : {ZeroTime, SuppliedTime}]

\* meta.FindStatusCondition: the index of the condition of that type, or 0
FindStatusCondition(conditions, type) ==
  IF \E i \in 1 .. Len(conditions) : conditions[i].Type = type
  THEN CHOOSE i \in 1 .. Len(conditions) :
         conditions[i].Type = type /\ \A j \in 1 .. (i - 1) : conditions[j].Type # type
  ELSE 0

\* meta.SetStatusCondition(&conditions, newCondition)
SetStatusCondition(conditions, newCondition, now) ==
  LET i == FindStatusCondition(conditions, newCondition.Type)
  IN IF i = 0
     THEN Append(conditions,
                 IF newCondition.LastTransitionTime = ZeroTime
                 THEN [newCondition EXCEPT !.LastTransitionTime = now]
                 ELSE newCondition)
     ELSE LET e == conditions[i]
              t == IF e.Status # newCondition.Status
                   THEN IF newCondition.LastTransitionTime # ZeroTime
                        THEN newCondition.LastTransitionTime
                        ELSE now
                   ELSE e.LastTransitionTime
          IN [conditions EXCEPT ![i] = [Type |-> e.Type,
                                        Status |-> newCondition.Status,
                                        Reason |-> newCondition.Reason,
                                        Message |-> newCondition.Message,
                                        LastTransitionTime |-> t]]

SetConditionAppend(c, condition, now) ==
  LET conditions == IF IsNone(c) THEN <<>> ELSE Get(c)
      cond == IF condition.Reason = "" THEN [condition EXCEPT !.Reason = reasonEmpty]
              ELSE condition
  IN Some(Append(conditions, cond))

SetConditionStamp(c, condition, now) ==
  LET conditions == IF IsNone(c) THEN <<>> ELSE Get(c)
      cond == IF condition.Reason = "" THEN [condition EXCEPT !.Reason = reasonEmpty]
              ELSE condition
      i == FindStatusCondition(conditions, cond.Type)
      set == SetStatusCondition(conditions, cond, now)
  IN Some(IF i = 0 THEN set
          ELSE [set EXCEPT ![i].LastTransitionTime =
                  IF cond.LastTransitionTime # ZeroTime
                  THEN cond.LastTransitionTime ELSE now])

\* (c *ConditionalStatus) SetCondition(condition): c.Conditions after the call
SetCondition(c, condition, now) ==
  LET conditions == IF IsNone(c) THEN <<>> ELSE Get(c)
      cond == IF condition.Reason = "" THEN [condition EXCEPT !.Reason = reasonEmpty]
              ELSE condition
  IN Some(SetStatusCondition(conditions, cond, now))

NoCall == [called |-> FALSE, arg |-> None, before |-> None]

CondInit ==
  /\ conds = None
  /\ cdNow = 1
  /\ cdFirst = <<>>
  /\ cdLast = NoCall
  /\ cdCalls = 0

CondIdle ==
  /\ conds = None
  /\ cdNow = 0
  /\ cdFirst = <<>>
  /\ cdLast = NoCall
  /\ cdCalls = 0

\* a caller sets a condition on the status
CallSetCondition ==
  /\ cdCalls < MaxSetCalls
  /\ \E condition \in Conditions :
       /\ conds' = SetCondition(conds, condition, cdNow)
       /\ cdFirst' = IF \E i \in 1 .. Len(cdFirst) : cdFirst[i] = condition.Type
                     THEN cdFirst ELSE Append(cdFirst, condition.Type)
       /\ cdLast' = [called |-> TRUE, arg |-> Some(condition), before |-> conds]
  /\ cdCalls' = cdCalls + 1
  /\ UNCHANGED cdNow

\* time passes
CondTick ==
  /\ cdNow < MaxTime
  /\ cdNow' = cdNow + 1
  /\ UNCHANGED <<conds, cdFirst, cdLast, cdCalls>>

(***************************************************************************)
(* The DataNode start script (startScriptTpl)                              *)
(***************************************************************************)
VARIABLES
  scPc,         \* position of the shell in the script
  elapseTime,   \* the script's variable elapseTime
  scDns,        \* whether the pod's own name resolves right now
  scLookup,     \* result of the last nslookup: "none", "ok" or "failed"
  scLookups     \* nslookup runs so far

scriptVars == <<scPc, elapseTime, scDns, scLookup, scLookups>>

period == 1
threshold == 30

ScriptEnded == {"running", "exit1", "failed"}

ScriptInit ==
  /\ scPc = "start"
  /\ elapseTime = 0
  /\ scDns \in BOOLEAN
  /\ scLookup = "none"
  /\ scLookups = 0

ScriptIdle ==
  /\ scPc = "idle"
  /\ elapseTime = 0
  /\ scDns = FALSE
  /\ scLookup = "none"
  /\ scLookups = 0

\* the commands before the loop (identity, instance configuration); under
\* "set -eu" a failing command ends the script
Prepare ==
  /\ scPc = "start"
  /\ scPc' \in {"sleep", "failed"}
  /\ elapseTime' = 0
  /\ UNCHANGED <<scDns, scLookup, scLookups>>

\* sleep ${period}; elapseTime=$(( elapseTime+period ))
Sleep ==
  /\ scPc = "sleep"
  /\ elapseTime' = elapseTime + period
  /\ scPc' = "check"
  /\ UNCHANGED <<scDns, scLookup, scLookups>>

\* [ ${elapseTime} -ge ${threshold} ]
TimedOut(elapse) == elapse >= threshold

\* if [ ${elapseTime} -ge ${threshold} ]; then ... exit 1
CheckTimeout ==
  /\ scPc = "check"
  /\ scPc' = IF TimedOut(elapseTime) THEN "exit1" ELSE "lookup"
  /\ UNCHANGED <<elapseTime, scDns, scLookup, scLookups>>

AfterLookupAlwaysBreak(ok) == "exec"

\* if nslookup ${ADDR} >/dev/null; then break; else echo ...; fi
AfterLookup(ok) == IF ok THEN "exec" ELSE "sleep"

Lookup ==
  /\ scPc = "lookup"
  /\ scLookup' = IF scDns THEN "ok" ELSE "failed"
  /\ scLookups' = scLookups + 1
  /\ scPc' = AfterLookup(scDns)
  /\ UNCHANGED <<elapseTime, scDns>>

\* exec /mo-service -cfg ${conf}
Exec ==
  /\ scPc = "exec"
  /\ scPc' = "running"
  /\ UNCHANGED <<elapseTime, scDns, scLookup, scLookups>>

\* the cluster DNS gains or loses the pod's record
DnsChange ==
  /\ scPc \notin ScriptEnded
  /\ scDns' = ~scDns
  /\ UNCHANGED <<scPc, elapseTime, scLookup, scLookups>>

\* the shell runs the script's next command
ScriptStep == Prepare \/ Sleep \/ CheckTimeout \/ Lookup \/ Exec

(***************************************************************************)
(* CNSet admission: creation of a compute-node set through the webhook     *)
(***************************************************************************)
VARIABLES
  cnStore,      \* the CNSet objects in the resource store
  cnChildren,   \* names of the CNSets that have child objects
  cnLast,       \* the last Create call: the object sent and the answer
  cnCreates     \* Create calls so far

cnVars == <<cnStore, cnChildren, cnLast, cnCreates>>

LabelKeys == {<<>>, <<"t", "e", "s", "t">>}
LabelValues == {<<>>, <<"t", "e", "s", "t">>}

\* the value lists of a CNLabel: none, one item, or two
LabelValueLists ==
  {<<>>} \cup {<<v>> : v \in LabelValues}
         \cup {<<v, w>> : v \in LabelValues, w \in LabelValues}

CNLabels == [Key : LabelKeys, Values : LabelValueLists]

RECURSIVE LabelLists(_)
LabelLists(n) ==
  IF n = 0 THEN {<<>>}
  ELSE LET S == LabelLists(n - 1)
       IN S \cup {Append(l, x) : l \in {m \in S : Len(m) = n - 1}, x \in CNLabels}

validateCNLabelKeyOnly(l) == l.Key # <<>>

\* the webhook's label check: a key, at least one value, no empty value
validateCNLabel(l) ==
  /\ l.Key # <<>>
  /\ Len(l.Values) > 0
  /\ \A i \in 1 .. Len(l.Values) : l.Values[i] # <<>>

\* ValidateCreate of the CNSet webhook, as far as the labels go
ValidateCreate(cn) ==
  \A i \in 1 .. Len(cn.Labels) : validateCNLabel(cn.Labels[i])

Accepted == "accepted"
Rejected == "rejected"
NoCreate == [sent |-> None, answer |-> "none", before |-> {}]

CNInit ==
  /\ cnStore = {}
  /\ cnChildren = {}
  /\ cnLast = NoCreate
  /\ cnCreates = 0

CNIdle ==
  /\ cnStore = {}
  /\ cnChildren = {}
  /\ cnLast = [sent |-> None, answer |-> "idle", before |-> {}]
  /\ cnCreates = 0

\* k8sClient.Create(ctx, cn) of a CNSet with a fresh name: the webhook
\* answers, and the store keeps the object only when it was accepted
CreateCNSet ==
  /\ cnCreates < MaxCreates
  /\ \E labels \in LabelLists(MaxLabels) :
       LET cn == [Name |-> <<"cn", cnCreates + 1>>, Labels |-> labels]
           ok == ValidateCreate(cn)
       IN /\ cnStore' = IF ok THEN cnStore \cup {cn} ELSE cnStore
          /\ cnLast' = [sent |-> Some(cn),
                        answer |-> IF ok THEN Accepted ELSE Rejected,
                        before |-> cnStore]
  /\ cnCreates' = cnCreates + 1
  /\ UNCHANGED cnChildren

\* the CNSet reconciler creates or updates the child objects of a stored set
ReconcileCNSet ==
  /\ \E cn \in cnStore : cnChildren' = cnChildren \cup {cn.Name}
  /\ UNCHANGED <<cnStore, cnLast, cnCreates>>

vars == <<bucketVars, labelVars, overlayVars, dnVars, foVars, condVars, scriptVars, cnVars>>

(***************************************************************************)
(* Specifications: each runs one part of the program, the others at rest  *)
(***************************************************************************)
notBucketVars == <<labelVars, overlayVars, dnVars, foVars, condVars, scriptVars, cnVars>>
notLabelVars == <<bucketVars, overlayVars, dnVars, foVars, condVars, scriptVars, cnVars>>
notOverlayVars == <<bucketVars, labelVars, dnVars, foVars, condVars, scriptVars, cnVars>>
notDnVars == <<bucketVars, labelVars, overlayVars, foVars, condVars, scriptVars, cnVars>>
notFoVars == <<bucketVars, labelVars, overlayVars, dnVars, condVars, scriptVars, cnVars>>
notCondVars == <<bucketVars, labelVars, overlayVars, dnVars, foVars, scriptVars, cnVars>>
notScriptVars == <<bucketVars, labelVars, overlayVars, dnVars, foVars, condVars, cnVars>>
notCnVars == <<bucketVars, labelVars, overlayVars, dnVars, foVars, condVars, scriptVars>>

SpecBucketInit ==
  /\ BucketInit
  /\ LabelIdle /\ OverlayIdle /\ DNIdle /\ FailoverIdle /\ CondIdle /\ ScriptIdle /\ CNIdle
SpecBucketNext ==
  \/ \E c \in Clusters : CallClaimedBucket(c) /\ UNCHANGED notBucketVars
  \/ \E c \in Clusters : CreateClaim(c) /\ UNCHANGED notBucketVars
  \/ \E c \in Clusters : FinishPass(c) /\ UNCHANGED notBucketVars
  \/ \E c \in Clusters : NextPass(c) /\ UNCHANGED notBucketVars
SpecBucket == SpecBucketInit /\ [][SpecBucketNext]_vars

SpecLabelInit ==
  /\ LabelInit
  /\ BucketIdle /\ OverlayIdle /\ DNIdle /\ FailoverIdle /\ CondIdle /\ ScriptIdle /\ CNIdle
SpecLabelNext ==
  \/ LabelA /\ UNCHANGED notLabelVars
  \/ LabelB /\ UNCHANGED notLabelVars
SpecLabel == SpecLabelInit /\ [][SpecLabelNext]_vars

SpecOverlayInit ==
  /\ OverlayInit
  /\ BucketIdle /\ LabelIdle /\ DNIdle /\ FailoverIdle /\ CondIdle /\ ScriptIdle /\ CNIdle
SpecOverlayNext ==
  \/ ApplyOverlayPodMeta /\ UNCHANGED notOverlayVars
  \/ ApplyOverlayPodSpec /\ UNCHANGED notOverlayVars
  \/ ApplyOverlayMainContainer /\ UNCHANGED notOverlayVars
  \/ ApplyAppendVolumeClaims /\ UNCHANGED notOverlayVars
SpecOverlay == SpecOverlayInit /\ [][SpecOverlayNext]_vars

SpecDNInit ==
  /\ DNInit(DNSpecs, {PlainFS})
  /\ BucketIdle /\ LabelIdle /\ OverlayIdle /\ FailoverIdle /\ CondIdle /\ ScriptIdle /\ CNIdle
SpecDNNext ==
  \/ SyncPods /\ UNCHANGED notDnVars
  \/ SyncPersistentVolumeClaim /\ UNCHANGED notDnVars
  \/ SyncReplicas /\ UNCHANGED notDnVars
  \/ UpdateSpec /\ UNCHANGED notDnVars
  \/ PublishDiscovery /\ UNCHANGED notDnVars
SpecDN == SpecDNInit /\ [][SpecDNNext]_vars

SpecConfigInit ==
  /\ DNInit(ConfigSpecs, FSConfigs)
  /\ BucketIdle /\ LabelIdle /\ OverlayIdle /\ FailoverIdle /\ CondIdle /\ ScriptIdle /\ CNIdle
SpecConfigNext ==
  \/ SyncPods /\ UNCHANGED notDnVars
  \/ PublishDiscovery /\ UNCHANGED notDnVars
SpecConfig == SpecConfigInit /\ [][SpecConfigNext]_vars

SpecFailoverInit ==
  /\ FailoverInit
  /\ BucketIdle /\ LabelIdle /\ OverlayIdle /\ DNIdle /\ CondIdle /\ ScriptIdle /\ CNIdle
SpecFailoverNext ==
  \/ CallStoresFailedFor /\ UNCHANGED notFoVars
  \/ TestStore /\ UNCHANGED notFoVars
  \/ ReturnStores /\ UNCHANGED notFoVars
  \/ Tick /\ UNCHANGED notFoVars
SpecFailover == SpecFailoverInit /\ [][SpecFailoverNext]_vars

SpecCondInit ==
  /\ CondInit
  /\ BucketIdle /\ LabelIdle /\ OverlayIdle /\ DNIdle /\ FailoverIdle /\ ScriptIdle /\ CNIdle
SpecCondNext ==
  \/ CallSetCondition /\ UNCHANGED notCondVars
  \/ CondTick /\ UNCHANGED notCondVars
SpecCond == SpecCondInit /\ [][SpecCondNext]_vars

SpecScriptInit ==
  /\ ScriptInit
  /\ BucketIdle /\ LabelIdle /\ OverlayIdle /\ DNIdle /\ FailoverIdle /\ CondIdle /\ CNIdle
SpecScriptNext ==
  \/ Prepare /\ UNCHANGED notScriptVars
  \/ Sleep /\ UNCHANGED notScriptVars
  \/ CheckTimeout /\ UNCHANGED notScriptVars
  \/ Lookup /\ UNCHANGED notScriptVars
  \/ Exec /\ UNCHANGED notScriptVars
  \/ DnsChange /\ UNCHANGED notScriptVars
\* the shell keeps running the script
SpecScriptFair == WF_vars(ScriptStep /\ UNCHANGED notScriptVars)
SpecScript == SpecScriptInit /\ [][SpecScriptNext]_vars /\ SpecScriptFair

SpecCNInit ==
  /\ CNInit
  /\ BucketIdle /\ LabelIdle /\ OverlayIdle /\ DNIdle /\ FailoverIdle /\ CondIdle /\ ScriptIdle
SpecCNNext ==
  \/ CreateCNSet /\ UNCHANGED notCnVars
  \/ ReconcileCNSet /\ UNCHANGED notCnVars
SpecCN == SpecCNInit /\ [][SpecCNNext]_vars

(***************************************************************************)
(* Claims about the bucket claim resolver                                  *)
(***************************************************************************)
ClaimsOf(l) == MatchingLabels(claims, l)
Identity(c) == UniqueBucketLabel(provider[c])
Sharing(l) == {c \in Clusters : Identity(c) = l}

ClaimedBucketResult ==
  \A c \in Clusters :
    pc[c] = "listed" =>
      /\ listErr[c] # NoErr => ret[c] = [claim |-> None, err |-> listErr[c]]
      /\ (listErr[c] = NoErr /\ Cardinality(bcItems[c]) = 0) => ret[c] = NoRet
      /\ (listErr[c] = NoErr /\ Cardinality(bcItems[c]) = 1) =>
           /\ ret[c].err = NoErr
           /\ IsSome(ret[c].claim)
           /\ Get(ret[c].claim) \in bcItems[c]
      /\ (listErr[c] = NoErr /\ Cardinality(bcItems[c]) >= 2) =>
           /\ ret[c].err # NoErr
           /\ ret[c].claim = None

\* C2 witness: a lookup that found two claims and reported the conflict.
ConflictReported ==
  \E c \in Clusters :
    /\ pc[c] = "listed"
    /\ listErr[c] = NoErr
    /\ Cardinality(bcItems[c]) >= 2
    /\ ret[c].err = MoreThanOne

\* C4: of two clusters that are the only ones referencing an identity, when
\* the second one's lookup found the claim the first one created, the lookup
\* returned that claim, the second cluster created none, and that claim is
\* the only one with the identity, also after both passes are done.
SecondClusterReusesClaim ==
  \A c1 \in Clusters : \A c2 \in Clusters :
    ( /\ c1 # c2
      /\ Sharing(Identity(c2)) = {c1, c2}
      /\ pc[c2] \in {"listed", "done"}
      /\ listErr[c2] = NoErr
      /\ \E b \in claims : bcItems[c2] = {b} /\ b.owner = c1 )
    => /\ ret[c2].err = NoErr
       /\ ret[c2].claim = Some(CHOOSE b \in bcItems[c2] : TRUE)
       /\ {b \in claims : b.owner = c2} = {}
       /\ ClaimsOf(Identity(c2)) = bcItems[c2]

\* C4 witness: both clusters are done, the second having found the first's.
BothReconciledOneClaim ==
  \E c1 \in Clusters : \E c2 \in Clusters :
    /\ c1 # c2
    /\ Sharing(Identity(c2)) = {c1, c2}
    /\ pc[c1] = "done"
    /\ pc[c2] = "done"
    /\ listErr[c2] = NoErr
    /\ \E b \in claims : bcItems[c2] = {b} /\ b.owner = c1
    /\ Cardinality(ClaimsOf(Identity(c2))) = 1

(***************************************************************************)
(* Claims about the bucket identity                                        *)
(***************************************************************************)
SameTriple(p, q) ==
  p.Type = q.Type /\ p.Endpoint = q.Endpoint /\ p.Path = q.Path

DiffersInExactlyOne(p, q) ==
  \/ p.Type # q.Type /\ p.Endpoint = q.Endpoint /\ p.Path = q.Path
  \/ p.Type = q.Type /\ p.Endpoint # q.Endpoint /\ p.Path = q.Path
  \/ p.Type = q.Type /\ p.Endpoint = q.Endpoint /\ p.Path # q.Path

\* C3: two providers with equal type, endpoint and path get the same
\* identity whatever their secret reference, and two providers that differ
\* in exactly one of type, endpoint, path get different identities.
IdentityFromTypeEndpointPath ==
  (IsSome(idA) /\ IsSome(idB)) =>
    /\ SameTriple(provA, provB) => idA = idB
    /\ DiffersInExactlyOne(provA, provB) => idA # idB

\* C3 witness: equal triples with different secret references, both labelled.
SameTripleOtherSecret ==
  /\ IsSome(idA)
  /\ IsSome(idB)
  /\ SameTriple(provA, provB)
  /\ provA.SecretRef # provB.SecretRef
  /\ idA = idB

\* C20: two providers whose (type, endpoint, path) triples differ never get
\* the same identity, also when endpoint or path contain the '-' separator
\* and when one type is unset and the other is set.
DistinctTriplesDistinctIdentities ==
  (IsSome(idA) /\ IsSome(idB) /\ ~SameTriple(provA, provB)) => idA # idB

(***************************************************************************)
(* Claims about the overlay merger                                         *)
(***************************************************************************)
\* C9: a nil overlay, and a non-nil overlay in which no field is set,
\* applied through OverlayPodMeta, OverlayPodSpec, OverlayMainContainer or
\* AppendVolumeClaims, leaves the target equal to its value before the call.
EmptyOverlayIsIdentity ==
  (IsSome(ovResult) /\ ovOverlay \in {None, Some(EmptyOverlay)}) =>
    /\ Get(ovResult) = ovTarget
    /\ ~ovPanic

\* C9 witness: an overlay with no field set was applied to a pod spec that
\* holds generated tolerations.
EmptyOverlayApplied ==
  /\ ovKind = "spec"
  /\ ovOverlay = Some(EmptyOverlay)
  /\ IsSome(ovResult)
  /\ ovTarget.Tolerations = Some(<<Gen>>)

NameCount(list, name) == Cardinality({i \in 1 .. Len(list) : list[i].Name = name})
HasName(list, name) == \E i \in 1 .. Len(list) : list[i].Name = name

FirstNamed(list, name) ==
  list[CHOOSE i \in 1 .. Len(list) :
         list[i].Name = name /\ \A j \in 1 .. (i - 1) : list[j].Name # name]

Entries(m) == IF IsSome(m) THEN Get(m) ELSE {}

\* the union of two maps, the pairs of over winning on the keys of both
UnionOver(base, over) == {kv \in base : kv[1] \notin MapKeys(over)} \cup over

\* C12: for every overlay and every pod metadata, absent label or annotation
\* maps included, OverlayPodMeta completes and leaves the labels equal to the
\* union of the previous labels and the overlay's pod labels and the
\* annotations equal to the union of the previous annotations and the
\* overlay's pod annotations, the overlay winning on common keys.
PodMetaIsUnion ==
  (ovKind = "meta" /\ IsSome(ovResult) /\ IsSome(ovOverlay)) =>
    /\ ~ovPanic
    /\ Entries(Get(ovResult).Labels) =
         UnionOver(Entries(ovTarget.Labels), Entries(Get(ovOverlay).PodLabels))
    /\ Entries(Get(ovResult).Annotations) =
         UnionOver(Entries(ovTarget.Annotations),
                   Entries(Get(ovOverlay).PodAnnotations))

(***************************************************************************)
(* DataNode set claims                                                     *)
(***************************************************************************)
\* the last sync call was syncPods and the LogSet it saw had no discovery address
PassWithoutDiscovery ==
  /\ dnLast.op = "syncPods"
  /\ IsSome(dnLast.dep)
  /\ IsNone(Get(dnLast.dep).LogSet.Discovery)

\* C5: when the LogSet has not published a discovery address, syncPods ends
\* with a NotReady outcome that is not an error.
NoDiscoveryReportsNotReady ==
  PassWithoutDiscovery => dnRet = RetNotReady

\* C6: when the LogSet has not published a discovery address, syncPods
\* creates no configuration document and leaves the workload (pod metadata,
\* pod spec, config-map reference) exactly as it was before the pass.
NoDiscoveryLeavesWorkload ==
  PassWithoutDiscovery => /\ sts = dnLast.w
                          /\ cmStore = dnLast.store

\* a pass without discovery has ended for a spec whose overlay and generated
\* fields would have changed the workload had they been applied
NoDiscoveryPassEnded ==
  /\ PassWithoutDiscovery
  /\ dnRet = RetErr(DiscoveryNotReady)
  /\ dnSpec.Overlay = Some(RichOverlay)
  /\ sts.Spec.Containers = <<>>
  /\ IsSome(sts.Meta.Annotations)

\* C7: for every user configuration and every generated file-service
\* configuration, each configuration document built by buildDNSetConfigMap
\* holds the computed value at service-type, dn.listen-address,
\* dn.lockservice.listen-address and hakeeper-client.service-addresses.
ComputedValuesWin ==
  \A cm \in cmStore : \A p \in ComputedPaths :
    ConfLookup(cm.ConfigFile.doc, p) = Some(ComputedValue(p, Get(dnDep).LogSet))

\* a document was built from a user configuration that sets every computed
\* path and a file-service configuration that sets one as well
UserSetComputedPaths ==
  /\ dnLast.op = "syncPods"
  /\ dnRet = RetOK
  /\ cmStore # {}
  /\ IsSome(dnLast.Config)
  /\ \A p \in ComputedPaths : <<p, UserValue>> \in Get(dnLast.Config)
  /\ \E p \in ComputedPaths : <<p, FSValue>> \in dnFS

\* C8: a sync call (syncPods with syncPodMeta and syncPodSpec, or
\* syncPersistentVolumeClaim) that runs again on the workload a first run
\* produced, with the same spec, overlay and shared storage, leaves the
\* workload equal to what it was.
SecondSyncChangesNothing ==
  (dnLast.rerun /\ dnRet = RetOK) => sts = dnLast.w

\* syncPods has run a second time, on the workload that syncPods and
\* syncPersistentVolumeClaim produced for a spec with a cache volume and a
\* full overlay
SyncedTwice ==
  /\ dnLast.rerun
  /\ dnLast.op = "syncPods"
  /\ dnRet = RetOK
  /\ "syncPersistentVolumeClaim" \in dnRan
  /\ dnSpec.Overlay = Some(RichOverlay)
  /\ IsSome(dnSpec.CacheVolume)
  /\ IsSome(Get(dnDep).LogSet.SharedStorage.S3)
  /\ Len(sts.VolumeClaimTemplates) = 2

\* what syncPods and syncPersistentVolumeClaim make of the latest spec on
\* the freshly generated template t
FreshPass(t) == syncPods(dnSpec, dnDep, t, {}, dnFS)
FreshWorkload(t) == syncPersistentVolumeClaim(dnSpec, FreshPass(t).w)

\* C18: once the latest spec has been synced onto the live workload, the
\* workload's pod template and volume-claim templates equal what a sync of
\* that spec produces on a freshly generated template, so that nothing set
\* through an earlier spec's overlay or cache volume is left.
WorkloadFollowsLatestSpec ==
  {"syncPods", "syncPersistentVolumeClaim"} \subseteq dnRan =>
    \E t \in Templates :
      /\ FreshPass(t).ret = RetOK
      /\ sts.Meta = FreshWorkload(t).Meta
      /\ sts.Spec = FreshWorkload(t).Spec
      /\ sts.VolumeClaimTemplates = FreshWorkload(t).VolumeClaimTemplates

\* C19: buildDNSetConfigMap leaves its inputs unchanged: after a pass that
\* built the configuration document, the DNSet's Spec.Config holds exactly
\* the keys and values it held before the pass.
ConfigInputUnchanged ==
  (dnLast.op = "syncPods" /\ dnRet = RetOK) => dnSpec.Config = dnLast.Config

\* C21: a syncPods call with an absent dependency snapshot (ctx.Dep nil)
\* does not dereference the snapshot: it ends with a returned value or an
\* error, never with a fault.
AbsentSnapshotNoFault ==
  (dnLast.op = "syncPods" /\ IsNone(dnLast.dep)) => dnRet.kind # "panic"

(***************************************************************************)
(* Claims about the failover status                                        *)
(***************************************************************************)
\* the stores among the first n whose transition time was strictly older
\* than the clock reading of their test minus d, in FailedStores order
RECURSIVE StrictlyOlder(_)
StrictlyOlder(n) ==
  IF n = 0 THEN <<>>
  ELSE IF FailedForStrict(foSeen[n], foStores[n], foD)
       THEN Append(StrictlyOlder(n - 1), foStores[n])
       ELSE StrictlyOlder(n - 1)

\* C13: StoresFailedFor(d) returns exactly the entries of FailedStores whose
\* last-transition time is strictly older than now - d, in FailedStores
\* order (a store recorded exactly d ago is not returned).
ReturnsStrictlyOlderStores ==
  foPc = "done" => foOut = StrictlyOlder(Len(foStores))

(***************************************************************************)
(* Claims about the status conditions                                      *)
(***************************************************************************)
CondList == IF IsSome(conds) THEN Get(conds) ELSE <<>>
TypesOf(list) == [i \in 1 .. Len(list) |-> list[i].Type]

\* C14: after any sequence of SetCondition calls on a status that started
\* empty, the condition list holds one entry for every type ever set, at most
\* one per type, in the order in which the types were first set.
OneConditionPerType ==
  /\ TypesOf(CondList) = cdFirst
  /\ \A i \in 1 .. Len(CondList) : \A j \in 1 .. Len(CondList) :
       CondList[i].Type = CondList[j].Type => i = j

\* both types are set, and the type set first was set again afterwards
TypeSetAgain ==
  /\ Len(CondList) = 2
  /\ cdCalls = 3
  /\ Get(cdLast.arg).Type = cdFirst[1]

\* the entry of the last call's type before the call, and after it
EntryBefore ==
  Get(cdLast.before)[FindStatusCondition(Get(cdLast.before), Get(cdLast.arg).Type)]
EntryAfter == CondList[FindStatusCondition(CondList, Get(cdLast.arg).Type)]
HadEntry ==
  /\ cdLast.called
  /\ IsSome(cdLast.before)
  /\ FindStatusCondition(Get(cdLast.before), Get(cdLast.arg).Type) # 0

\* C15: a SetCondition call for a type already present with the same status
\* leaves the entry's last-transition time unchanged, whatever reason,
\* message or transition time the call supplies; the time changes only on a
\* call whose status differs from the stored one.
SameStatusKeepsTransitionTime ==
  HadEntry =>
    /\ EntryBefore.Status = Get(cdLast.arg).Status =>
         EntryAfter.LastTransitionTime = EntryBefore.LastTransitionTime
    /\ EntryAfter.LastTransitionTime # EntryBefore.LastTransitionTime =>
         EntryBefore.Status # Get(cdLast.arg).Status

\* a call repeated the stored status with another reason and a supplied
\* transition time later than the stored one, and the stored time stayed
StatusRepeatedLater ==
  /\ HadEntry
  /\ EntryBefore.Status = Get(cdLast.arg).Status
  /\ EntryBefore.Reason # EntryAfter.Reason
  /\ Get(cdLast.arg).LastTransitionTime = SuppliedTime
  /\ EntryBefore.LastTransitionTime < SuppliedTime
  /\ EntryAfter.LastTransitionTime = EntryBefore.LastTransitionTime
  /\ cdNow > EntryBefore.LastTransitionTime

(***************************************************************************)
(* Claims about the start script                                           *)
(***************************************************************************)
\* the service is exec'd only after a successful lookup, the loop never
\* starts an iteration past the threshold, and a timeout ends the script
\* without the service
WaitLoopSafe ==
  /\ scPc \in {"exec", "running"} => scLookup = "ok"
  /\ elapseTime <= threshold
  /\ scLookups < threshold
  /\ elapseTime = threshold => scPc \in {"check", "exit1"}
  /\ scPc = "exit1" => elapseTime = threshold /\ scLookup # "ok"

\* C16: the start script execs the service binary only after a lookup of
\* the pod's own name succeeded, and its wait loop (period 1, threshold 30)
\* always ends within 30 iterations, by going on to exec or by exiting with
\* status 1 without starting the service.
WaitLoopBoundedThenExec ==
  /\ []WaitLoopSafe
  /\ <>(scPc \in ScriptEnded)

\* the name resolved at the last lookup the loop could make
ExecAfterLastLookup ==
  /\ scPc = "running"
  /\ scLookups = threshold - 1
  /\ scLookup = "ok"

(***************************************************************************)
(* Claims about CNSet admission                                            *)
(***************************************************************************)
\* a label with an empty key, an empty value list or an empty value item
InvalidLabel(l) ==
  \/ l.Key = <<>>
  \/ l.Values = <<>>
  \/ \E i \in 1 .. Len(l.Values) : l.Values[i] = <<>>

HasInvalidLabel(cn) == \E i \in 1 .. Len(cn.Labels) : InvalidLabel(cn.Labels[i])

\* C17: a CNSet with a label that has an empty key, an empty value list or
\* an empty value item is rejected on creation, so that it is not stored and
\* no child object is created or updated for it; a CNSet without such a
\* label is accepted and stored.
InvalidLabelsRejected ==
  /\ \A cn \in cnStore : ~HasInvalidLabel(cn)
  /\ \A n \in cnChildren : \E cn \in cnStore : cn.Name = n
  /\ IsSome(cnLast.sent) =>
       IF HasInvalidLabel(Get(cnLast.sent))
       THEN /\ cnLast.answer = Rejected
            /\ cnStore = cnLast.before
            /\ Get(cnLast.sent).Name \notin cnChildren
       ELSE /\ cnLast.answer = Accepted
            /\ Get(cnLast.sent) \in cnStore

\* a set with a valid label was stored and reconciled, and a set whose
\* label has an empty value item was rejected after it
RejectedAfterAccepted ==
  /\ cnChildren # {}
  /\ \E cn \in cnStore : Len(cn.Labels) > 0
  /\ IsSome(cnLast.sent)
  /\ cnLast.answer = Rejected
  /\ Len(Get(cnLast.sent).Labels) > 0
  /\ Get(cnLast.sent).Labels[1].Key # <<>>
  /\ Len(Get(cnLast.sent).Labels[1].Values) > 0

====
